---- MODULE Spec2Model ----
(***************************************************************************)
(* Model of chroot/base.py: WithParentSkip, a context manager that forks   *)
(* and runs the with-block in the child only.  Two processes, "P" (the     *)
(* process that called __enter__) and "C" (the forked child), execute the  *)
(* same __enter__/__exit__ code on private copies of the instance.         *)
(***************************************************************************)
EXTENDS Integers, Sequences, FiniteSets, TLC

Proc == {"P", "C"}

\* The two Connection objects returned by Pipe() (line 44).
Endpoints == {"parent_pipe", "child_pipe"}

Peer(e) == IF e = "parent_pipe" THEN "child_pipe" ELSE "parent_pipe"

\* self.childpid = None (line 25); pids of forked children are 1, 2, ...
NoPid == 0

\* How many times __enter__ may be called on one instance in SpecReenter.
MaxEntries == 2

\* Exception classes the hooks and the block may raise.  ValueError stands
\* for every subclass of Exception; SystemExit and KeyboardInterrupt derive
\* from BaseException only.
Kinds == {"ValueError", "SystemExit", "KeyboardInterrupt"}

IsException(k) == k = "ValueError"

IsSystemExit(k) == k = "SystemExit"

\* An exception value: its class, the text of __traceback_list__ ("none"
\* when the attribute is absent, else the site whose trace was rendered) and
\* its argument.
Exc(k, tb, arg) == [kind |-> k, tb |-> tb, arg |-> arg]

NoExc == Exc("None", "none", "none")

\* self.ParentException() (lines 132-134, 152)
ParentExc == Exc("ParentException", "none", "none")

\* SystemExit() (lines 69, 104)
Sentinel == Exc("SystemExit", "none", "none")

\* SystemExit(e) built from the EOFError of recv (line 86)
EofExit == Exc("SystemExit", "none", "EOFError")

EmptyDict == [f \in {} |-> "None"]

DictSet(d, k, v) == [f \in (DOMAIN d) \cup {k} |-> IF f = k THEN v ELSE d[f]]

DictDel(d, k) == [f \in (DOMAIN d) \ {k} |-> d[f]]

Count(s, e) == Cardinality({i \in DOMAIN s : s[i] = e})

VARIABLES
  pc,        \* [Proc -> control point]
  childpid,  \* [Proc -> self.childpid]
  pipe,      \* [Proc -> self.__pipe: "None" or an endpoint]
  held,      \* [Proc -> the endpoints the process has an open handle on]
  chan,      \* [Endpoints -> messages waiting to be read at that endpoint]
  excArg,    \* [Proc -> exc_value handed to __exit__ / caught in __enter__]
  exception, \* [Proc -> local `exception` of __exit__]
  raised,    \* [Proc -> exception propagating to the caller of the region]
  tr,        \* [Proc -> tracing state: frame.f_trace, sys trace, bookkeeping]
  frame,     \* [Proc -> self.__frame: "unset" or a frame]
  excepthook,\* [Proc -> sys.excepthook]
  status,    \* [Proc -> "none", "running", "0" (os._exit(0)), "killed"]
  curPid,    \* pid of the child forked last
  reaped,    \* pids whose exit status has been collected
  forks,     \* number of os.fork() calls that succeeded
  overrides, \* whether the subclass overrides exception_cleanup
  log,       \* [Proc -> history of hook calls and system calls]
  sent,      \* [Proc -> history of messages the process put on the channel]
  bodyRuns   \* [Proc -> number of times the process executed the with-body]

vars == <<pc, childpid, pipe, held, chan, excArg, exception, raised, tr, frame,
          excepthook, status, curPid, reaped, forks, overrides, log, sent,
          bodyRuns>>

\* ---------------------------------------------------------------- tracing

\* __enable_tracing (lines 136-143)
EnableTracing(t) ==
  LET t1 == [t EXCEPT !.orig_sys_trace = t.sys_trace]
  IN  IF t1.orig_sys_trace = "None" THEN [t1 EXCEPT !.sys_trace = "dummy"] ELSE t1

\* __disable_tracing without the test of line 147: tracing is switched off
\* even when a trace function had been installed before.
DisableTracingAlways(t) == [t EXCEPT !.sys_trace = "None"]

\* __disable_tracing (lines 145-148)
DisableTracing(t) ==
  IF t.orig_sys_trace = "None" THEN [t EXCEPT !.sys_trace = "None"] ELSE t

\* __inject_trace_func without `frame.f_trace = self.__invoke_trace_funcs`:
\* the func is recorded but the frame never calls it.
InjectTraceFuncNoHook(t, fr, func) ==
  LET t1 == IF t.f_trace # "invoke"
            THEN LET a == [t EXCEPT !.orig_trace_funcs = DictSet(@, fr, t.f_trace),
                                    !.injected_trace_funcs = DictSet(@, fr, <<>>)]
                 IN  IF Cardinality(DOMAIN a.orig_trace_funcs) = 1
                     THEN EnableTracing(a) ELSE a
            ELSE t
  IN  [t1 EXCEPT !.injected_trace_funcs[fr] = Append(@, func)]

\* __inject_trace_func (lines 154-169)
InjectTraceFunc(t, fr, func) ==
  LET t1 == IF t.f_trace # "invoke"
            THEN LET a == [t EXCEPT !.orig_trace_funcs = DictSet(@, fr, t.f_trace),
                                    !.f_trace = "invoke",
                                    !.injected_trace_funcs = DictSet(@, fr, <<>>)]
                 IN  IF Cardinality(DOMAIN a.orig_trace_funcs) = 1
                     THEN EnableTracing(a) ELSE a
            ELSE t
  IN  [t1 EXCEPT !.injected_trace_funcs[fr] = Append(@, func)]

\* the finally clause of __invoke_trace_funcs (lines 181-186)
InvokeTraceFuncs(t, fr) ==
  LET t1 == [t EXCEPT !.injected_trace_funcs = DictDel(@, fr)]
      t2 == IF Cardinality(DOMAIN t1.orig_trace_funcs) = 1
            THEN DisableTracing(t1) ELSE t1
  IN  [t2 EXCEPT !.f_trace = t2.orig_trace_funcs[fr],
                 !.orig_trace_funcs = DictDel(@, fr)]

\* The interpreter calls frame.f_trace on the frame's next line event when
\* tracing is switched on; the funcs injected for the frame are then run.
GateArmed(t, fr) ==
  /\ t.f_trace = "invoke"
  /\ t.sys_trace # "None"
  /\ fr \in DOMAIN t.injected_trace_funcs

\* __get_context_frame (lines 188-206): the cached frame, else the caller's
GetContextFrame(cached, caller) == IF cached # "unset" THEN cached ELSE caller

\* ---------------------------------------------------------------- channel

\* Connection.recv() returns a message when one is waiting ...
RecvReady(self) == chan[pipe[self]] # <<>>

\* ... and raises EOFError once nothing is waiting and no process holds the
\* other end any more.
RecvEof(self) ==
  /\ chan[pipe[self]] = <<>>
  /\ \A p \in Proc : Peer(pipe[self]) \notin held[p]

\* Connection.send() fails with EPIPE when no process holds the other end.
SendBroken(self) == \A p \in Proc : Peer(pipe[self]) \notin held[p]

Deliver(self, msg) ==
  /\ chan' = [chan EXCEPT ![Peer(pipe[self])] = Append(@, msg)]
  /\ sent' = [sent EXCEPT ![self] = Append(@, msg)]

\* ---------------------------------------------------------------- Init

TraceValues == {"None", "dbg"}

Init ==
  /\ pc = [p \in Proc |-> IF p = "P" THEN "init" ELSE "none"]
  /\ childpid = [p \in Proc |-> NoPid]
  /\ pipe = [p \in Proc |-> "None"]
  /\ held = [p \in Proc |-> {}]
  /\ chan = [e \in Endpoints |-> <<>>]
  /\ excArg = [p \in Proc |-> NoExc]
  /\ exception = [p \in Proc |-> NoExc]
  /\ raised = [p \in Proc |-> NoExc]
  /\ \E ft \in TraceValues, st \in TraceValues :
       tr = [p \in Proc |-> [f_trace |-> ft, sys_trace |-> st,
                             orig_sys_trace |-> "None",
                             orig_trace_funcs |-> EmptyDict,
                             injected_trace_funcs |-> EmptyDict]]
  /\ frame = [p \in Proc |-> "unset"]
  /\ excepthook = [p \in Proc |-> "default"]
  /\ status = [p \in Proc |-> IF p = "P" THEN "running" ELSE "none"]
  /\ curPid = NoPid
  /\ reaped = {}
  /\ forks = 0
  /\ overrides \in BOOLEAN
  /\ log = [p \in Proc |-> <<>>]
  /\ sent = [p \in Proc |-> <<>>]
  /\ bodyRuns = [p \in Proc |-> 0]

\* ---------------------------------------------------------------- hooks

Logged(self, ev) == [log EXCEPT ![self] = Append(@, ev)]

\* cleanup() called by __exit__ itself (line 115)
Cleanup(l) == Append(l, "cleanup@115")

\* exception_cleanup() followed by a second, direct cleanup(), as if the
\* failure path fell through to line 115.
ExceptionCleanupTwice(l) ==
  IF overrides THEN Append(Append(l, "exception_cleanup"), "cleanup@115")
  ELSE Append(Append(Append(l, "exception_cleanup"), "cleanup@41"), "cleanup@115")

\* exception_cleanup() (lines 39-41): the base class delegates to cleanup()
ExceptionCleanup(l) ==
  IF overrides THEN Append(l, "exception_cleanup")
  ELSE Append(Append(l, "exception_cleanup"), "cleanup@41")

\* The outcome of a hook or of the block: it completes or raises.
Outcomes == {"ok"} \cup Kinds

\* The argument of a SystemExit raised by the block: sys.exit() or
\* sys.exit(3).
ExitArgs == {"none", "3"}

\* ---------------------------------------------------------------- __enter__

\* Pipe() and os.fork() (lines 44-45): the child starts as a copy of the
\* parent, both processes holding both endpoints.
DoFork ==
  /\ forks' = forks + 1
  /\ curPid' = forks + 1
  /\ pc' = [pc EXCEPT !["P"] = "enter_parent", !["C"] = "enter_child"]
  /\ status' = [status EXCEPT !["C"] = "running"]
  /\ held' = [p \in Proc |-> Endpoints]
  /\ chan' = [e \in Endpoints |-> <<>>]
  /\ childpid' = [childpid EXCEPT !["C"] = childpid["P"]]
  /\ pipe' = [pipe EXCEPT !["C"] = pipe["P"]]
  /\ tr' = [tr EXCEPT !["C"] = tr["P"]]
  /\ frame' = [frame EXCEPT !["C"] = frame["P"]]
  /\ excepthook' = [excepthook EXCEPT !["C"] = excepthook["P"]]
  /\ excArg' = [p \in Proc |-> NoExc]
  /\ exception' = [p \in Proc |-> NoExc]
  /\ raised' = [p \in Proc |-> NoExc]
  /\ log' = [log EXCEPT !["C"] = <<>>]
  /\ sent' = [sent EXCEPT !["C"] = <<>>]
  /\ bodyRuns' = [bodyRuns EXCEPT !["C"] = 0]
  /\ UNCHANGED <<reaped, overrides>>

\* __enter__ on a fresh instance (lines 43-45)
Fork ==
  /\ pc["P"] = "init"
  /\ DoFork

\* os.fork() raises OSError (line 45): no child exists
ForkFails ==
  /\ pc["P"] = "init"
  /\ pc' = [pc EXCEPT !["P"] = "raised_enter"]
  /\ raised' = [raised EXCEPT !["P"] = Exc("OSError", "none", "none")]
  /\ UNCHANGED <<childpid, pipe, held, chan, excArg, exception, tr, frame,
                 excepthook, status, curPid, reaped, forks, overrides, log,
                 sent, bodyRuns>>

\* The parent branch with lines 49-50 moved above line 48: the pid and the
\* endpoint are recorded before parent_setup is called.
ParentSetupRecordsFirst(self) ==
  /\ pc[self] = "enter_parent"
  /\ \E o \in Outcomes :
       /\ log' = Logged(self, "parent_setup")
       /\ childpid' = [childpid EXCEPT ![self] = curPid]
       /\ pipe' = [pipe EXCEPT ![self] = "parent_pipe"]
       /\ IF o = "ok"
          THEN /\ frame' = [frame EXCEPT ![self] = GetContextFrame(@, "ctx")]
               /\ tr' = [tr EXCEPT ![self] =
                           InjectTraceFunc(@, frame'[self], "exit_context")]
               /\ held' = [held EXCEPT ![self] = {"parent_pipe"}]
               /\ pc' = [pc EXCEPT ![self] = "with_body"]
               /\ UNCHANGED raised
          ELSE /\ pc' = [pc EXCEPT ![self] = "raised_enter"]
               /\ raised' = [raised EXCEPT ![self] = Exc(o, "none", "none")]
               /\ UNCHANGED <<frame, tr, held>>
  /\ UNCHANGED <<chan, excArg, exception, excepthook, status, curPid, reaped,
                 forks, overrides, sent, bodyRuns>>

\* The parent branch keeping its handle on child_pipe after __enter__
\* returned (as if line 44's child_pipe were stored on the instance).
ParentSetupKeepsChildPipe(self) ==
  /\ pc[self] = "enter_parent"
  /\ \E o \in Outcomes :
       /\ log' = Logged(self, "parent_setup")
       /\ IF o = "ok"
          THEN /\ childpid' = [childpid EXCEPT ![self] = curPid]
               /\ pipe' = [pipe EXCEPT ![self] = "parent_pipe"]
               /\ frame' = [frame EXCEPT ![self] = GetContextFrame(@, "ctx")]
               /\ tr' = [tr EXCEPT ![self] =
                           InjectTraceFunc(@, frame'[self], "exit_context")]
               /\ pc' = [pc EXCEPT ![self] = "with_body"]
               /\ UNCHANGED <<raised, held>>
          ELSE /\ pc' = [pc EXCEPT ![self] = "raised_enter"]
               /\ raised' = [raised EXCEPT ![self] = Exc(o, "none", "none")]
               /\ UNCHANGED <<childpid, pipe, frame, tr, held>>
  /\ UNCHANGED <<chan, excArg, exception, excepthook, status, curPid, reaped,
                 forks, overrides, sent, bodyRuns>>

\* The parent branch of __enter__ (lines 47-54)
ParentSetup(self) ==
  /\ pc[self] = "enter_parent"
  /\ \E o \in Outcomes :
       /\ log' = Logged(self, "parent_setup")
       /\ IF o = "ok"
          THEN /\ childpid' = [childpid EXCEPT ![self] = curPid]
               /\ pipe' = [pipe EXCEPT ![self] = "parent_pipe"]
               /\ frame' = [frame EXCEPT ![self] = GetContextFrame(@, "ctx")]
               /\ tr' = [tr EXCEPT ![self] =
                           InjectTraceFunc(@, frame'[self], "exit_context")]
               /\ held' = [held EXCEPT ![self] = {"parent_pipe"}]
               /\ pc' = [pc EXCEPT ![self] = "with_body"]
               /\ UNCHANGED raised
          ELSE /\ pc' = [pc EXCEPT ![self] = "raised_enter"]
               /\ raised' = [raised EXCEPT ![self] = Exc(o, "none", "none")]
               /\ UNCHANGED <<childpid, pipe, frame, tr, held>>
  /\ UNCHANGED <<chan, excArg, exception, excepthook, status, curPid, reaped,
                 forks, overrides, sent, bodyRuns>>

\* The child branch with line 57 written `self.__pipe = parent_pipe`.
ChildSetupParentPipe(self) ==
  /\ pc[self] = "enter_child"
  /\ pipe' = [pipe EXCEPT ![self] = "parent_pipe"]
  /\ log' = Logged(self, "child_setup")
  /\ \E o \in Outcomes :
       IF o = "ok"
       THEN /\ held' = [held EXCEPT ![self] = {"parent_pipe"}]
            /\ pc' = [pc EXCEPT ![self] = "with_body"]
            /\ UNCHANGED <<excArg, raised>>
       ELSE IF IsException(o)
       THEN /\ excArg' = [excArg EXCEPT ![self] = Exc(o, "child_setup", "none")]
            /\ pc' = [pc EXCEPT ![self] = "enter_send_ex"]
            /\ UNCHANGED <<held, raised>>
       ELSE /\ pc' = [pc EXCEPT ![self] = "raised_enter"]
            /\ raised' = [raised EXCEPT ![self] = Exc(o, "none", "none")]
            /\ UNCHANGED <<held, excArg>>
  /\ UNCHANGED <<childpid, chan, exception, tr, frame, excepthook, status,
                 curPid, reaped, forks, overrides, sent, bodyRuns>>

\* The child branch of __enter__ up to the except clause (lines 56-66, 79)
ChildSetup(self) ==
  /\ pc[self] = "enter_child"
  /\ pipe' = [pipe EXCEPT ![self] = "child_pipe"]
  /\ log' = Logged(self, "child_setup")
  /\ \E o \in Outcomes :
       IF o = "ok"
       THEN /\ held' = [held EXCEPT ![self] = {"child_pipe"}]
            /\ pc' = [pc EXCEPT ![self] = "with_body"]
            /\ UNCHANGED <<excArg, raised>>
       ELSE IF IsException(o)
       THEN /\ excArg' = [excArg EXCEPT ![self] = Exc(o, "child_setup", "none")]
            /\ pc' = [pc EXCEPT ![self] = "enter_send_ex"]
            /\ UNCHANGED <<held, raised>>
       ELSE /\ pc' = [pc EXCEPT ![self] = "raised_enter"]
            /\ raised' = [raised EXCEPT ![self] = Exc(o, "none", "none")]
            /\ UNCHANGED <<held, excArg>>
  /\ UNCHANGED <<childpid, chan, exception, tr, frame, excepthook, status,
                 curPid, reaped, forks, overrides, sent, bodyRuns>>

\* The except clause without line 67: the exception is never sent.
EnterSendExSkipped(self) ==
  /\ pc[self] = "enter_send_ex"
  /\ pc' = [pc EXCEPT ![self] = "enter_send_exit"]
  /\ UNCHANGED <<childpid, pipe, held, chan, excArg, exception, raised, tr,
                 frame, excepthook, status, curPid, reaped, forks, overrides,
                 log, sent, bodyRuns>>

\* self.__pipe.send(ex) in the except clause (line 67), not guarded
EnterSendEx(self) ==
  /\ pc[self] = "enter_send_ex"
  /\ IF SendBroken(self)
     THEN /\ pc' = [pc EXCEPT ![self] = "raised_enter"]
          /\ raised' = [raised EXCEPT ![self] = Exc("BrokenPipeError", "none", "none")]
          /\ UNCHANGED <<chan, sent>>
     ELSE /\ Deliver(self, excArg[self])
          /\ pc' = [pc EXCEPT ![self] = "enter_send_exit"]
          /\ UNCHANGED raised
  /\ UNCHANGED <<childpid, pipe, held, excArg, exception, tr, frame, excepthook,
                 status, curPid, reaped, forks, overrides, log, bodyRuns>>

\* The sentinel is never sent.
SendSentinelSkipped(self) == UNCHANGED <<chan, sent>>

\* send(SystemExit()) with EPIPE/ESHUTDOWN swallowed (lines 68-75, 103-110)
SendSentinel(self) ==
  IF SendBroken(self) THEN UNCHANGED <<chan, sent>> ELSE Deliver(self, Sentinel)

\* The guarded send of the except clause (lines 68-75)
EnterSendExit(self) ==
  /\ pc[self] = "enter_send_exit"
  /\ SendSentinel(self)
  /\ pc' = [pc EXCEPT ![self] = "os_exit"]
  /\ UNCHANGED <<childpid, pipe, held, excArg, exception, raised, tr, frame,
                 excepthook, status, curPid, reaped, forks, overrides, log,
                 bodyRuns>>

\* os._exit(0) (lines 76, 111): the process ends, its handles are closed
OsExit(self) ==
  /\ pc[self] = "os_exit"
  /\ pc' = [pc EXCEPT ![self] = "exited"]
  /\ status' = [status EXCEPT ![self] = "0"]
  /\ held' = [held EXCEPT ![self] = {}]
  /\ UNCHANGED <<childpid, pipe, chan, excArg, exception, raised, tr, frame,
                 excepthook, curPid, reaped, forks, overrides, log, sent,
                 bodyRuns>>

\* An exception left __enter__: its frame, which holds parent_pipe and
\* child_pipe (line 44), is released and only self.__pipe stays open.
ReleaseFrame(self) ==
  /\ pc[self] = "raised_enter"
  /\ held[self] # held[self] \cap {pipe[self]}
  /\ held' = [held EXCEPT ![self] = @ \cap {pipe[self]}]
  /\ UNCHANGED <<pc, childpid, pipe, chan, excArg, exception, raised, tr, frame,
                 excepthook, status, curPid, reaped, forks, overrides, log,
                 sent, bodyRuns>>

\* ---------------------------------------------------------------- the block

\* The frame of the with-statement resumes after __enter__ returned.  With
\* the gate armed, __invoke_trace_funcs runs __exit_context, which raises
\* ParentException before the first statement of the block (lines 150-152,
\* 171-186); otherwise the process executes the block, which completes or
\* raises.  Either way __exit__ is called next.
ResumeFrame(self) ==
  /\ pc[self] = "with_body"
  /\ \E o \in Outcomes, a \in ExitArgs :
       IF GateArmed(tr[self], "ctx")
       THEN /\ tr' = [tr EXCEPT ![self] = InvokeTraceFuncs(@, "ctx")]
            /\ excArg' = [excArg EXCEPT ![self] = ParentExc]
            /\ UNCHANGED bodyRuns
       ELSE /\ bodyRuns' = [bodyRuns EXCEPT ![self] = @ + 1]
            /\ excArg' = [excArg EXCEPT ![self] =
                            IF o = "ok" THEN NoExc
                            ELSE Exc(o, "none", IF IsSystemExit(o) THEN a ELSE "none")]
            /\ UNCHANGED tr
  /\ pc' = [pc EXCEPT ![self] = "exit"]
  /\ UNCHANGED <<childpid, pipe, held, chan, exception, raised, frame,
                 excepthook, status, curPid, reaped, forks, overrides, log, sent>>

\* ---------------------------------------------------------------- __exit__

\* The test of line 88 written as `exception is not None`.
AfterRecvNotNone(e) ==
  IF e.kind # "None" THEN "exit_waitpid_fail" ELSE "exit_check"

\* The test of line 88 taking only the child's bare SystemExit() for the
\* sentinel, not every instance of SystemExit.
AfterRecvBareSentinel(e) ==
  IF e # Sentinel THEN "exit_waitpid_fail" ELSE "exit_check"

\* `if not isinstance(exception, SystemExit)` (line 88): where __exit__ goes
\* with the exception it received.
AfterRecv(e) ==
  IF ~IsSystemExit(e.kind) THEN "exit_waitpid_fail" ELSE "exit_check"

\* exc_type is ParentException: recv, EOFError turned into SystemExit(e), and
\* the isinstance test (lines 82-88)
ExitRecv(self) ==
  /\ pc[self] = "exit"
  /\ excArg[self] = ParentExc
  /\ RecvReady(self) \/ RecvEof(self)
  /\ LET e == IF RecvReady(self) THEN Head(chan[pipe[self]]) ELSE EofExit
     IN  /\ exception' = [exception EXCEPT ![self] = e]
         /\ pc' = [pc EXCEPT ![self] = AfterRecv(e)]
  /\ chan' = [chan EXCEPT ![pipe[self]] = IF @ = <<>> THEN @ ELSE Tail(@)]
  /\ log' = Logged(self, "recv")
  /\ UNCHANGED <<childpid, pipe, held, excArg, raised, tr, frame, excepthook,
                 status, curPid, reaped, forks, overrides, sent, bodyRuns>>

\* The exc_value branch without line 99: the exception is sent as it is.
ExitSendNoTrace(self) ==
  /\ pc[self] = "exit"
  /\ excArg[self] # ParentExc
  /\ IF excArg[self] = NoExc
     THEN /\ pc' = [pc EXCEPT ![self] = "exit_check"]
          /\ UNCHANGED <<chan, sent, raised>>
     ELSE IF SendBroken(self)
          THEN /\ pc' = [pc EXCEPT ![self] = "raised_exit"]
               /\ raised' = [raised EXCEPT ![self] =
                               Exc("BrokenPipeError", "none", "none")]
               /\ UNCHANGED <<chan, sent>>
          ELSE /\ Deliver(self, excArg[self])
               /\ pc' = [pc EXCEPT ![self] = "exit_check"]
               /\ UNCHANGED raised
  /\ UNCHANGED <<childpid, pipe, held, excArg, exception, tr, frame, excepthook,
                 status, curPid, reaped, forks, overrides, log, bodyRuns>>

\* exc_type is not ParentException: an exception of the block gets its trace
\* rendered and is sent, not guarded (lines 94-100)
ExitSend(self) ==
  /\ pc[self] = "exit"
  /\ excArg[self] # ParentExc
  /\ IF excArg[self] = NoExc
     THEN /\ pc' = [pc EXCEPT ![self] = "exit_check"]
          /\ UNCHANGED <<excArg, chan, sent, raised>>
     ELSE /\ excArg' = [excArg EXCEPT ![self].tb = "block"]
          /\ IF SendBroken(self)
             THEN /\ pc' = [pc EXCEPT ![self] = "raised_exit"]
                  /\ raised' = [raised EXCEPT ![self] =
                                  Exc("BrokenPipeError", "none", "none")]
                  /\ UNCHANGED <<chan, sent>>
             ELSE /\ Deliver(self, excArg'[self])
                  /\ pc' = [pc EXCEPT ![self] = "exit_check"]
                  /\ UNCHANGED raised
  /\ UNCHANGED <<childpid, pipe, held, exception, tr, frame, excepthook, status,
                 curPid, reaped, forks, overrides, log, bodyRuns>>

\* cleanup() of line 115 placed above the childpid test of line 102: the
\* child calls it too before it sends the sentinel.
ExitSendSentinelAfterCleanup(self) ==
  /\ pc[self] = "exit_check"
  /\ childpid[self] = NoPid
  /\ IF SendBroken(self)
     THEN UNCHANGED <<chan, sent>>
     ELSE Deliver(self, Sentinel)
  /\ log' = [log EXCEPT ![self] = Cleanup(@)]
  /\ pc' = [pc EXCEPT ![self] = "os_exit"]
  /\ UNCHANGED <<childpid, pipe, held, excArg, exception, raised, tr, frame,
                 excepthook, status, curPid, reaped, forks, overrides,
                 bodyRuns>>

\* self.childpid is None: the guarded send of the sentinel (lines 102-110)
ExitSendSentinel(self) ==
  /\ pc[self] = "exit_check"
  /\ childpid[self] = NoPid
  /\ SendSentinel(self)
  /\ pc' = [pc EXCEPT ![self] = "os_exit"]
  /\ UNCHANGED <<childpid, pipe, held, excArg, exception, raised, tr, frame,
                 excepthook, status, curPid, reaped, forks, overrides, log,
                 bodyRuns>>

\* os.waitpid(pid, 0) succeeds for a child of the caller that has not been
\* waited for, and then blocks until the child has terminated.
IsChild(self, pid) == self = "P" /\ pid = curPid /\ pid \notin reaped

Terminated(p) == status[p] \in {"0", "killed"}

\* os.waitpid(self.childpid, os.WNOHANG): it returns at once, with nothing
\* collected when the child is still running.
WaitpidNoHang(self, next) ==
  IF IsChild(self, childpid[self])
  THEN /\ reaped' = IF Terminated("C") THEN reaped \cup {childpid[self]} ELSE reaped
       /\ log' = Logged(self, "waitpid")
       /\ pc' = [pc EXCEPT ![self] = next]
       /\ UNCHANGED raised
  ELSE /\ pc' = [pc EXCEPT ![self] = "raised_exit"]
       /\ raised' = [raised EXCEPT ![self] = Exc("ChildProcessError", "none", "none")]
       /\ UNCHANGED <<reaped, log>>

\* os.waitpid(self.childpid, 0) (lines 89, 114): ChildProcessError when the
\* pid is no child of the caller, else the status is collected and control
\* goes to `next`.
Waitpid(self, next) ==
  IF IsChild(self, childpid[self])
  THEN /\ Terminated("C")
       /\ reaped' = reaped \cup {childpid[self]}
       /\ log' = Logged(self, "waitpid")
       /\ pc' = [pc EXCEPT ![self] = next]
       /\ UNCHANGED raised
  ELSE /\ pc' = [pc EXCEPT ![self] = "raised_exit"]
       /\ raised' = [raised EXCEPT ![self] = Exc("ChildProcessError", "none", "none")]
       /\ UNCHANGED <<reaped, log>>

\* The wait of the failure path (line 89)
ExitWaitpidFail(self) ==
  /\ pc[self] = "exit_waitpid_fail"
  /\ Waitpid(self, "exit_exception_cleanup")
  /\ UNCHANGED <<childpid, pipe, held, chan, excArg, exception, tr, frame,
                 excepthook, status, curPid, forks, overrides, sent, bodyRuns>>

\* The failure path without `raise exception` (line 92): control falls
\* through to the childpid test of line 102 and waits again.
ExitExceptionCleanupFallsThrough(self) ==
  /\ pc[self] = "exit_exception_cleanup"
  /\ log' = [log EXCEPT ![self] = ExceptionCleanup(@)]
  /\ excepthook' = [excepthook EXCEPT ![self] = "__excepthook"]
  /\ pc' = [pc EXCEPT ![self] = "exit_check"]
  /\ UNCHANGED <<childpid, pipe, held, chan, excArg, exception, raised, tr,
                 frame, status, curPid, reaped, forks, overrides, sent, bodyRuns>>

\* exception_cleanup(), the excepthook and the re-raise (lines 90-92)
ExitExceptionCleanup(self) ==
  /\ pc[self] = "exit_exception_cleanup"
  /\ log' = [log EXCEPT ![self] = ExceptionCleanup(@)]
  /\ excepthook' = [excepthook EXCEPT ![self] = "__excepthook"]
  /\ raised' = [raised EXCEPT ![self] = exception[self]]
  /\ pc' = [pc EXCEPT ![self] = "reraised"]
  /\ UNCHANGED <<childpid, pipe, held, chan, excArg, exception, tr, frame,
                 status, curPid, reaped, forks, overrides, sent, bodyRuns>>

\* self.childpid is set: wait for the child to exit (lines 102, 113-114)
ExitWaitpid(self) ==
  /\ pc[self] = "exit_check"
  /\ childpid[self] # NoPid
  /\ Waitpid(self, "exit_cleanup")
  /\ UNCHANGED <<childpid, pipe, held, chan, excArg, exception, tr, frame,
                 excepthook, status, curPid, forks, overrides, sent, bodyRuns>>

\* cleanup() and return True: the exception handed to __exit__ is
\* suppressed and the caller goes on after the region (lines 115-117)
ExitCleanup(self) ==
  /\ pc[self] = "exit_cleanup"
  /\ log' = [log EXCEPT ![self] = Cleanup(@)]
  /\ pc' = [pc EXCEPT ![self] = "after"]
  /\ UNCHANGED <<childpid, pipe, held, chan, excArg, exception, raised, tr,
                 frame, excepthook, status, curPid, reaped, forks, overrides,
                 sent, bodyRuns>>

\* ---------------------------------------------------------------- environment

\* The child dies without os._exit(0): a crash, a signal, or the end of a
\* child that left the region with an exception.  The kernel closes its
\* handles, which is what recv observes as EOFError (line 85).
Kill ==
  /\ status["C"] = "running"
  /\ pc' = [pc EXCEPT !["C"] = "killed"]
  /\ status' = [status EXCEPT !["C"] = "killed"]
  /\ held' = [held EXCEPT !["C"] = {}]
  /\ UNCHANGED <<childpid, pipe, chan, excArg, exception, raised, tr, frame,
                 excepthook, curPid, reaped, forks, overrides, log, sent,
                 bodyRuns>>

\* __enter__ called again on an instance whose region has ended: the code
\* has no check, so it is lines 43-45 once more.
Reenter ==
  /\ pc["P"] \in {"after", "reraised"}
  /\ forks < MaxEntries
  /\ DoFork

Step(self) ==
  \/ ParentSetup(self) \/ ChildSetup(self) \/ EnterSendEx(self)
  \/ EnterSendExit(self) \/ OsExit(self) \/ ReleaseFrame(self)
  \/ ResumeFrame(self) \/ ExitRecv(self) \/ ExitSend(self)
  \/ ExitSendSentinel(self) \/ ExitWaitpidFail(self)
  \/ ExitExceptionCleanup(self) \/ ExitWaitpid(self) \/ ExitCleanup(self)

Next == Fork \/ ForkFails \/ Kill \/ (\E self \in Proc : Step(self))

\* One region on a fresh instance.
Spec == Init /\ [][Next]_vars

NextReenter == Next \/ Reenter

\* The instance may be entered again after its region ended.
SpecReenter == Init /\ [][NextReenter]_vars

\* ---------------------------------------------------------------- properties

\* __exit__ has returned True, or an exception has left it.
Terminal(p) == pc[p] \in {"after", "reraised", "raised_exit"}

\* The process has been handed to __exit__ (or is past it).
InOrPastExit(p) ==
  pc[p] \in {"exit", "exit_check", "exit_waitpid_fail", "exit_exception_cleanup",
             "exit_cleanup", "after", "reraised", "raised_exit"}

BlockCompleted(p) == bodyRuns[p] = 1 /\ excArg[p] = NoExc

BlockRaised(p) == bodyRuns[p] = 1 /\ excArg[p] # NoExc

SetupFailed(p) == excArg[p].tb = "child_setup"

SuccessLog == <<"parent_setup", "recv", "waitpid", "cleanup@115">>

FailureLog ==
  <<"parent_setup", "recv", "waitpid", "exception_cleanup">>
    \o (IF overrides THEN <<>> ELSE <<"cleanup@41">>)

\* C1: the parent never executes a statement of the block: whenever the
\* parent's frame is about to resume after __enter__ the gate is armed, the
\* parent reaches __exit__ only with ParentException, and only the child
\* runs the block.
C1_ParentSkipsBody ==
  /\ bodyRuns["P"] = 0
  /\ pc["P"] = "with_body" => GateArmed(tr["P"], "ctx")
  /\ InOrPastExit("P") => excArg["P"] = ParentExc

C1_Witness ==
  /\ pc["P"] = "exit"
  /\ excArg["P"] = ParentExc
  /\ bodyRuns["C"] = 1

\* C2: when the child's block completed without raising and the parent's
\* __exit__ has ended, the parent received an exception of the sentinel kind
\* (the child's own sentinel whenever the child left through os._exit(0)),
\* reaped the child, called cleanup() once and exception_cleanup() never, in
\* that order, and returned True so that it continues after the region.
C2_CleanExit ==
  BlockCompleted("C") =>
    /\ pc["P"] \notin {"exit_waitpid_fail", "exit_exception_cleanup",
                       "reraised", "raised_exit"}
    /\ Terminal("P") =>
         /\ pc["P"] = "after"
         /\ IsSystemExit(exception["P"].kind)
         /\ status["C"] = "0" => exception["P"] = Sentinel
         /\ curPid \in reaped
         /\ log["P"] = SuccessLog
         /\ raised["P"] = NoExc

C2_Witness ==
  /\ BlockCompleted("C")
  /\ status["C"] = "0"
  /\ pc["P"] = "after"
  /\ exception["P"] = Sentinel

\* C3 as stated: whatever exception the child's block raised and sent, the
\* parent's region ends by re-raising it.
C3_EveryBlockFailureReraised ==
  (BlockRaised("C") /\ sent["C"] # <<>> /\ Terminal("P")) => pc["P"] = "reraised"

\* C3 amended: a block failure that is not a SystemExit and was sent is
\* re-raised in the parent as received, after recv, waitpid and one
\* exception_cleanup() (which calls cleanup() only by its default
\* delegation), in that order; a block that raised SystemExit ends the
\* parent's region like a clean exit.
C3_BlockFailure ==
  (BlockRaised("C") /\ sent["C"] # <<>> /\ Terminal("P")) =>
    IF IsSystemExit(excArg["C"].kind)
    THEN /\ pc["P"] = "after"
         /\ log["P"] = SuccessLog
    ELSE /\ pc["P"] = "reraised"
         /\ raised["P"] = excArg["C"]
         /\ raised["P"].tb = "block"
         /\ curPid \in reaped
         /\ log["P"] = FailureLog

C3_Witness ==
  /\ BlockRaised("C")
  /\ excArg["C"].kind = "ValueError"
  /\ pc["P"] = "reraised"
  /\ ~overrides

\* C4: when recv ended with EOFError (the channel closed with no message),
\* the parent's region does not end in the success path.
C4_EofIsFailure ==
  (exception["P"] = EofExit /\ Terminal("P")) => pc["P"] # "after"

\* C5: in the parent's history every cleanup hook comes after the waitpid
\* that collected the child, and in both terminal states of __exit__ the
\* child has been reaped.
C5_ReapedBeforeCleanup ==
  /\ \A i \in DOMAIN log["P"] :
       log["P"][i] \in {"cleanup@115", "cleanup@41", "exception_cleanup"} =>
         /\ \E j \in 1..(i - 1) : log["P"][j] = "waitpid"
         /\ curPid \in reaped
  /\ pc["P"] \in {"after", "reraised"} =>
       /\ curPid \in reaped
       /\ Terminated("C")

C5_Witness ==
  /\ pc["P"] = "reraised"
  /\ curPid \in reaped
  /\ Count(log["P"], "exception_cleanup") = 1

\* C6 as stated: the child sends at most one message per region.
C6_OneMessage == Len(sent["C"]) <= 1

\* C6 amended: the child sends one message on a clean exit (the sentinel)
\* and two on a failure (the exception, then the sentinel): never more, the
\* sentinel at most once and last; a child that leaves through os._exit(0)
\* while the parent's endpoint is open has sent all of them; the parent
\* receives at most once.
C6_Messages ==
  LET s == sent["C"] IN
  /\ Len(s) <= 2
  /\ Len(s) >= 1 => s[1] = (IF excArg["C"] = NoExc THEN Sentinel ELSE excArg["C"])
  /\ Len(s) = 2 => s[1] # Sentinel /\ s[2] = Sentinel
  /\ (status["C"] = "0" /\ "parent_pipe" \in held["P"]) =>
       s = (IF excArg["C"] = NoExc THEN <<Sentinel>> ELSE <<excArg["C"], Sentinel>>)
  /\ Count(log["P"], "recv") <= 1

C6_Witness ==
  /\ status["C"] = "0"
  /\ Len(sent["C"]) = 2
  /\ Count(log["P"], "recv") = 1

\* C7: __enter__ on an instance whose region has ended does not fork a
\* second child and does not overwrite the stored child pid.
C7_SingleEntry ==
  /\ forks <= 1
  /\ childpid["P"] \in {NoPid, 1}

ParentSetupRaised == pc["P"] = "raised_enter" /\ raised["P"].kind \in Kinds

C9_State ==
  ParentSetupRaised =>
    /\ childpid["P"] = NoPid
    /\ pipe["P"] = "None"
    /\ tr["P"].f_trace # "invoke"
    /\ tr["P"].injected_trace_funcs = EmptyDict
    /\ frame["P"] = "unset"
    /\ log["P"] = <<"parent_setup">>
    /\ curPid \notin reaped
    /\ forks = 1

C9_Step ==
  /\ pc["P"] = "raised_enter" => pc'["P"] = "raised_enter"
  /\ (pc["P"] = "enter_parent" /\ pc'["P"] = "raised_enter") =>
       /\ pc'["C"] = pc["C"]
       /\ status'["C"] = status["C"]

\* C9: once parent_setup has raised, the exception is out of __enter__: no
\* child pid, channel endpoint or frame is recorded, the gate is not
\* installed, the parent runs nothing of __exit__ (no recv, waitpid or
\* cleanup hook) then or later, and the child, untouched by the failure, is
\* never reaped.
C9_ParentSetupRaises == []C9_State /\ [][C9_Step]_vars

C9_Witness ==
  /\ ParentSetupRaised
  /\ status["C"] = "0"
  /\ bodyRuns["C"] = 1
  /\ curPid \notin reaped

\* C10: once child_setup's exception has been caught, or the block has been
\* executed, the child is inside __enter__ or __exit__ until it leaves
\* through os._exit(0): it never leaves __exit__ by a return or an
\* exception, never runs the code after the region and never receives.
C10_ChildEndsInExit ==
  (SetupFailed("C") \/ bodyRuns["C"] = 1) =>
    /\ pc["C"] \in {"enter_send_ex", "enter_send_exit", "exit", "exit_check",
                    "os_exit", "exited", "killed"}
    /\ Count(log["C"], "recv") = 0

\* The parent is a running process: whenever one of its steps stays possible
\* (a call that can return, a statement that can execute) it is taken.
SpecFair == Spec /\ WF_vars(Step("P"))

\* The parent is inside __exit__.
InExit(p) ==
  pc[p] \in {"exit", "exit_check", "exit_waitpid_fail",
             "exit_exception_cleanup", "exit_cleanup"}

\* C11: once the parent is inside __exit__ and the child has terminated
\* (os._exit(0) after its messages, or death with or without a message
\* sent), recv and waitpid return and __exit__ ends by returning True or by
\* re-raising.
C11_ParentTerminates ==
  (InExit("P") /\ Terminated("C")) ~> (pc["P"] \in {"after", "reraised"})

C11_Witness ==
  /\ pc["P"] = "after"
  /\ status["C"] = "killed"
  /\ sent["C"] = <<>>
  /\ exception["P"] = EofExit

\* C12: a send of the child that fails because the parent's end is gone is
\* swallowed: no BrokenPipeError ever propagates in the child, which goes on
\* to os._exit(0).
C12_SendFailureSwallowed ==
  /\ raised["C"].kind # "BrokenPipeError"
  /\ pc["C"] \notin {"raised_exit"}

\* ---------------------------------------------------------------- defensive path

\* An exception is raised in the with-statement's frame after __enter__
\* returned (lines 54, 79) and before the first line event of the block: the
\* binding of the `as` target fails, or KeyboardInterrupt arrives.  The
\* gate has not fired, and __exit__ is called with that exception.
RaiseBeforeGate(self) ==
  /\ pc[self] = "with_body"
  /\ \E k \in Kinds : excArg' = [excArg EXCEPT ![self] = Exc(k, "none", "none")]
  /\ pc' = [pc EXCEPT ![self] = "exit"]
  /\ UNCHANGED <<childpid, pipe, held, chan, exception, raised, tr, frame,
                 excepthook, status, curPid, reaped, forks, overrides, log,
                 sent, bodyRuns>>

NextDefensive == Next \/ (\E self \in Proc : RaiseBeforeGate(self))

\* One region in which __exit__ may be reached without the gate.
SpecDefensive == Init /\ [][NextDefensive]_vars

\* C13: when the parent's __exit__ was called with an exception other than
\* ParentException, it ends by returning True, having sent that exception,
\* received nothing, reaped the child and called cleanup() once.
C13_ParentForwards ==
  (excArg["P"] \notin {NoExc, ParentExc} /\ Terminal("P")) =>
    /\ pc["P"] = "after"
    /\ sent["P"] = <<excArg["P"]>>
    /\ curPid \in reaped
    /\ log["P"] = <<"parent_setup", "waitpid", "cleanup@115">>

\* The lifecycle state of the parent: 1 ENTERED (fork done), 2 AWAITING_CHILD
\* (inside __exit__, child not collected), 3 REAPED (waitpid returned, hook
\* pending), 4 terminal (DONE, DONE-with-reraise, or an exception left
\* __enter__ or __exit__).
LifecycleRank(p) ==
  CASE pc[p] = "init" -> 0
    [] pc[p] \in {"enter_parent", "with_body"} -> 1
    [] pc[p] \in {"exit", "exit_check", "exit_waitpid_fail"} -> 2
    [] pc[p] \in {"exit_exception_cleanup", "exit_cleanup"} -> 3
    [] OTHER -> 4

C14_State ==
  /\ Count(log["P"], "waitpid") <= forks
  /\ Cardinality(reaped) <= forks
  /\ Count(log["P"], "waitpid") = Cardinality(reaped)

C14_Step ==
  forks' = forks =>
    /\ LifecycleRank("P")' >= LifecycleRank("P")
    /\ pc'["P"] # "raised_enter" => LifecycleRank("P")' <= LifecycleRank("P") + 1
    /\ reaped' # reaped =>
         /\ LifecycleRank("P") = 2
         /\ LifecycleRank("P")' = 3
         /\ reaped' = reaped \cup {curPid}
         /\ curPid \notin reaped
    /\ LifecycleRank("P") = 4 =>
         /\ pc'["P"] = pc["P"]
         /\ log'["P"] = log["P"]
         /\ reaped' = reaped

\* C14: within a region (between two forks) the parent's lifecycle only
\* moves forward, one state at a time, ENTERED -> AWAITING_CHILD -> REAPED ->
\* terminal; the child is collected once, on the step AWAITING_CHILD ->
\* REAPED; in a terminal state the parent performs no recv, waitpid or hook.
C14_Lifecycle == []C14_State /\ [][C14_Step]_vars

C14_Witness ==
  /\ forks = 2
  /\ pc["P"] = "reraised"
  /\ Cardinality(reaped) = 2

\* The message carries __traceback_list__, rendered at the site that sent it.
HasTrace(m) ==
  m.tb = (IF bodyRuns["C"] = 1 THEN "block" ELSE "child_setup")

\* C15: every message of the child other than the sentinel carries the
\* trace text rendered where the exception was caught (child_setup or the
\* block), on the channel as in the history of sends, and what the parent
\* re-raises is the message it received, trace text included.
C15_TraceAttached ==
  /\ \A i \in DOMAIN sent["C"] :
       sent["C"][i] # Sentinel => HasTrace(sent["C"][i])
  /\ \A i \in DOMAIN chan["parent_pipe"] :
       chan["parent_pipe"][i] # Sentinel => HasTrace(chan["parent_pipe"][i])
  /\ pc["P"] = "reraised" =>
       /\ raised["P"] = exception["P"]
       /\ raised["P"] = sent["C"][1]
       /\ HasTrace(raised["P"])

C15_Witness ==
  /\ pc["P"] = "reraised"
  /\ raised["P"].tb = "block"
  /\ raised["P"].kind = "KeyboardInterrupt"

CleanupHooks == {"cleanup@115", "cleanup@41", "exception_cleanup"}

\* C16: parent_setup is called once, by the parent only, as the first thing
\* after the fork: until it has been called, and when it raised, no child
\* pid is recorded and the gate is not installed; child_setup is called
\* once, by the child only, before the child runs the block; the child
\* never calls cleanup or exception_cleanup.
C16_HookCalls ==
  /\ Count(log["P"], "parent_setup") = (IF pc["P"] \in {"init", "enter_parent"} THEN 0 ELSE forks)
  /\ Count(log["C"], "parent_setup") = 0
  /\ Count(log["P"], "child_setup") = 0
  /\ Count(log["C"], "child_setup") <= 1
  /\ pc["C"] \in {"none", "enter_child"} => log["C"] = <<>>
  /\ pc["C"] \notin {"none", "enter_child", "killed"} => log["C"] = <<"child_setup">>
  /\ (Count(log["P"], "parent_setup") = 0 \/ ParentSetupRaised) =>
       /\ childpid["P"] = NoPid
       /\ ~GateArmed(tr["P"], "ctx")
  /\ log["P"] # <<>> => log["P"][1] = "parent_setup"
  /\ bodyRuns["C"] > 0 => Count(log["C"], "child_setup") = 1
  /\ \A i \in DOMAIN log["C"] : log["C"][i] \notin CleanupHooks

C16_Witness ==
  /\ pc["P"] = "after"
  /\ status["C"] = "0"
  /\ bodyRuns["C"] = 1
  /\ log["C"] = <<"child_setup">>

\* The endpoint a process is meant to use after the fork.
Own(p) == IF p = "P" THEN "parent_pipe" ELSE "child_pipe"

Suffix(q, n) == SubSeq(q, Len(q) - n + 1, Len(q))

\* C17: a process sends and receives only through self.__pipe, which is its
\* own endpoint, and once __enter__ has returned it holds no handle on the
\* other one; what waits at the parent's endpoint was sent by the child,
\* what waits at the child's endpoint was sent by the parent; only the
\* parent receives, at most once, taking at most one message.
C17_OwnEndpoints ==
  /\ \A p \in Proc :
       /\ pipe[p] \in {"None", Own(p)}
       /\ (sent[p] # <<>> \/ Count(log[p], "recv") > 0) => pipe[p] = Own(p)
       /\ (pc[p] = "with_body" \/ InOrPastExit(p)) => held[p] = {Own(p)}
  /\ Len(chan["parent_pipe"]) <= Len(sent["C"])
  /\ chan["parent_pipe"] = Suffix(sent["C"], Len(chan["parent_pipe"]))
  /\ chan["child_pipe"] = sent["P"]
  /\ Len(sent["C"]) - Len(chan["parent_pipe"]) <= Count(log["P"], "recv")
  /\ Count(log["P"], "recv") <= 1
  /\ Count(log["C"], "recv") = 0

C17_Witness ==
  /\ Count(log["P"], "recv") = 1
  /\ Len(sent["C"]) = 2
  /\ chan["parent_pipe"] = <<Sentinel>>
  /\ pc["P"] = "reraised"

\* C18: when the parent's __exit__ has ended, it re-raised exactly when the
\* child's first message exists and is not a SystemExit, whatever the
\* child's exit status; it then raised that message.  Otherwise (first
\* message a SystemExit, raised by the block or sent as sentinel, or no
\* message at all) it took the clean path: waitpid, cleanup(), return True.
C18_FirstMessageDecides ==
  Terminal("P") =>
    LET reraise == sent["C"] # <<>> /\ ~IsSystemExit(sent["C"][1].kind)
    IN  /\ pc["P"] = (IF reraise THEN "reraised" ELSE "after")
        /\ log["P"] = (IF reraise THEN FailureLog ELSE SuccessLog)
        /\ raised["P"] = (IF reraise THEN sent["C"][1] ELSE NoExc)
        /\ sent["C"] # <<>> => exception["P"] = sent["C"][1]

C18_Witness ==
  /\ BlockRaised("C")
  /\ excArg["C"].kind = "SystemExit"
  /\ excArg["C"].arg = "3"
  /\ exception["P"] = excArg["C"]
  /\ pc["P"] = "after"
  /\ status["C"] = "killed"

\* The tracing state before the injection: the child's copy, taken by the
\* fork (line 45) and never changed by the child.
PreTrace == tr["C"]

\* C19: installing the gate and letting it fire leaves the tracing state as
\* it was.  While the gate is installed the frame's trace function is
\* __invoke_trace_funcs, both maps hold the frame and tracing is on (the
\* dummy when none was set); once __invoke_trace_funcs has run, the frame's
\* trace function and the system trace function are those from before the
\* injection (so tracing is off again exactly when the separator had
\* switched it on) and both maps are empty.
C19_TracingRoundTrip ==
  /\ pc["P"] = "with_body" =>
       /\ tr["P"].f_trace = "invoke"
       /\ tr["P"].sys_trace =
            (IF PreTrace.sys_trace = "None" THEN "dummy" ELSE PreTrace.sys_trace)
       /\ tr["P"].orig_sys_trace = PreTrace.sys_trace
       /\ tr["P"].orig_trace_funcs = DictSet(EmptyDict, "ctx", PreTrace.f_trace)
       /\ tr["P"].injected_trace_funcs = DictSet(EmptyDict, "ctx", <<"exit_context">>)
  /\ InOrPastExit("P") =>
       /\ tr["P"].f_trace = PreTrace.f_trace
       /\ tr["P"].sys_trace = PreTrace.sys_trace
       /\ tr["P"].orig_trace_funcs = EmptyDict
       /\ tr["P"].injected_trace_funcs = EmptyDict

C19_Witness ==
  /\ pc["P"] = "exit"
  /\ excArg["P"] = ParentExc
  /\ PreTrace.sys_trace = "dbg"
  /\ PreTrace.f_trace = "dbg"
  /\ tr["P"].sys_trace = "dbg"

====
